---------------------------- MODULE Spec2Model ----------------------------
(***************************************************************************)
(* The legacy-project consolidation migrator of Teams Toolkit:             *)
(* ProjectConsolidateMW, upgrade, needConsolidateLocalRemote,              *)
(* consolidateLocalRemote and checkMethod.  One call of the middleware is  *)
(* a "call" c; its asynchronous code is cut at the awaits, so that calls   *)
(* (and the floating upgrade() of the non-modal path) interleave exactly   *)
(* where the JavaScript event loop lets them.                              *)
(***************************************************************************)
EXTENDS Integers, Sequences, FiniteSets, TLC

\* ------------------------------------------------------------------ bounds
NumCalls == 2
MaxLearnMore == 2
MaxFaults == 2
MaxUrlLen == 3
MaxTabs == 2
MaxApps == 2

Calls == 1..NumCalls

\* --------------------------------------------------------------- constants
upgradeButton == "Upgrade"
LearnMore == "Learn More"
NoMethod == "undefined"
methods == {"getProjectConfig", "checkPermission"}
Methods == methods \cup {"provisionResources", NoMethod}

\* Paths of the project that the migrator reads or writes.
FxFolder == ".fx"
EnvLocalFile == ".fx/configs/env.local.json"
UnifiedManifest == "templates/appPackage/manifest.template.json"
TemplateManifest == "templates/appPackage/template.manifest.json"
localSettingsFile == ".fx/configs/localSettings.json"
localManifestFile == "templates/appPackage/manifest.local.template.json"
remoteManifestFile == "templates/appPackage/manifest.remote.template.json"
backupFolder == ".backup"
LegacyFiles == {localSettingsFile, localManifestFile, remoteManifestFile}
BackupOf(p) == ".backup/" \o p
BackupFiles == {BackupOf(p) : p \in LegacyFiles}
upgradeReportName == "unify-config-change-logs.md"
ReportFile == ".backup/" \o upgradeReportName
Paths == {FxFolder, EnvLocalFile, UnifiedManifest, TemplateManifest, backupFolder, ReportFile}
           \cup LegacyFiles \cup BackupFiles
\* What fs.remove of the backup folder takes away.
UnderBackup(p) == p = backupFolder \/ p \in BackupFiles \/ p = ReportFile

\* The entries updateGitIgnore adds to the ignore file.
IgnoreEntries == {".fx/configs/config.local.json", ".fx/states/state.local.json", ".backup"}

Absent == "absent"
Dir == "dir"
\* The content each legacy file has before the migration.
Original(p) == "original:" \o p

\* The local variable answer of upgrade: undefined, or the string chosen.
Undefined == "undefined-value"
\* What showMessage can resolve to: ok(value), an error result, or nothing
\* at all (TOOLS?.ui is undefined).
ShowMessageResults ==
    {<<"ok", upgradeButton>>, <<"ok", LearnMore>>, <<"ok", "Not now">>,
     <<"ok", "">>, <<"ok", Undefined>>, <<"err", Undefined>>, <<"none", Undefined>>}

ConsolidateCanceledError == "ConsolidateCanceledError"
LoadSettingsError == "loadProjectSettings-error"
NextResult == "next-result"
NoResult == "no-result"
NoError == "no-error"
NoManifest == "no-manifest"

\* What the comparison of the local and the remote manifest template finds:
\* a property of the two files' contents.
CmpKinds == {"same", "different", "unparsable"}

VARIABLES
    fs,             \* path -> content, or Absent
    configUnify,    \* isConfigUnifyEnabled()
    spfx,           \* isSPFxProject(projectSettings)
    cmpKind,        \* how the two legacy manifests compare
    callers,        \* the calls the environment issues
    userCancelFlag,
    faults,         \* failures the environment may still inject
    gitignore,      \* the entries of the project's ignore file
    rewrite,        \* the tab loops of the SPFx manifest rewrite
    diffCall,       \* the two parsed manifests given to diff, and its outcome
    aad,            \* one UpdateAadAppDriver.execute
    task,           \* one PrerequisiteTaskTerminal
    call            \* per intercepted call: ctx and the locals of its functions

vars == <<fs, configUnify, spfx, cmpKind, callers, userCancelFlag, faults, gitignore,
          rewrite, diffCall, aad, task, call>>
\* The project's properties, and with the ignore file what only the tasks
\* started on success write.
projVars == <<configUnify, spfx, cmpKind, callers, rewrite, diffCall, aad, task>>
envVars == <<projVars, gitignore>>

Exists(f, p) == f[p] # Absent

\* ---------------------------------------------------------------- Detector
\* A detector that tests the unified manifest template only.
needConsolidate_NoMarkerCheck(f, inputsHasPath) ==
    IF ~configUnify THEN FALSE
    ELSE IF ~inputsHasPath THEN FALSE
    ELSE IF ~Exists(f, UnifiedManifest) THEN TRUE
    ELSE FALSE

\* needConsolidateLocalRemote, with its early returns in the code's order.
needConsolidateLocalRemote(f, inputsHasPath) ==
    IF ~configUnify THEN FALSE
    ELSE IF ~inputsHasPath THEN FALSE
    ELSE IF ~Exists(f, FxFolder) THEN FALSE
    ELSE IF ~Exists(f, UnifiedManifest) THEN TRUE
    ELSE FALSE

\* ctx.method && methods.has(ctx.method)
InAllowList(m) == m # NoMethod /\ m \in methods

\* A checkMethod that lets every call through.
checkMethodResult_IgnoresLatch(m, flag) == TRUE

\* A checkMethod that never sets the latch.
checkMethodFlag_NeverSet(m, flag) == IF InAllowList(m) /\ flag THEN flag ELSE FALSE

\* checkMethod: its return value and the latch it leaves behind.
checkMethodResult(m, flag) == ~(InAllowList(m) /\ flag)

checkMethodFlag(m, flag) ==
    IF InAllowList(m) /\ flag THEN flag ELSE (m # NoMethod /\ m \in methods)

showModalFor(m) == ~InAllowList(m)

\* ------------------------------------------------ SPFx manifest tab rewrite
\* A string is the sequence of its parts: "componentId=", "%26", characters
\* of [a-z0-9-] and any other character.  Undefined is its own one-part text,
\* which is how util.format and RegExp.exec read it.
KeyPart == "componentId="
EndPart == "%26"
IdChars == {"a", "b"}
UrlParts == {KeyPart, EndPart, "&"} \cup IdChars
UndefinedText == <<"undefined">>
EmptyText == <<>>
Texts == UNION {[1..n -> UrlParts] : n \in 0..MaxUrlLen}
Urls == {UndefinedText} \cup Texts
EntityIds == {UndefinedText, EmptyText, <<"a">>, <<"b">>}

\* Where the greedy ([a-z0-9-]*) that starts at part p stops.
RunEnd(u, p) ==
    CHOOSE q \in p..(Len(u) + 1) :
        /\ \A i \in p..(q - 1) : u[i] \in IdChars
        /\ (q = Len(u) + 1 \/ u[q] \notin IdChars)

\* Where componentIdRegex matches: right after "componentId=", with the run
\* of identifier characters followed by "%26".
MatchStarts(u) ==
    {p \in 2..(Len(u) + 1) :
        /\ u[p - 1] = KeyPart
        /\ RunEnd(u, p) <= Len(u)
        /\ u[RunEnd(u, p)] = EndPart}

\* match[0] of the first match, or "".
replaceSPFxComponentId(content) ==
    IF MatchStarts(content) = {} THEN EmptyText
    ELSE LET p == CHOOSE m \in MatchStarts(content) :
                      \A o \in MatchStarts(content) : m <= o
         IN  SubSeq(content, p, RunEnd(content, p) - 1)

\* util.format(ManifestTemplate.<template>, componentId, componentId)
Format(template, a, b) == [template |-> template, args |-> <<a, b>>]
NoUrl == [template |-> "none", args |-> <<>>]

\* JavaScript truthiness of a string or undefined.
Truthy(t) == t # UndefinedText /\ t # EmptyText

\* A tab loop that extracts from the URL whatever the identifier is.
NeedsExtract_Always(url, componentId) == Truthy(url) \/ componentId = EmptyText

\* The condition of lines 213 and 226.
NeedsExtract(url, componentId) ==
    (Truthy(url) /\ componentId = UndefinedText) \/ componentId = EmptyText

\* No manifest is being rewritten.
NoRewrite ==
    [phase |-> "idle", componentId |-> EmptyText, n |-> 0, kind |-> "none",
     entityId |-> UndefinedText, url |-> UndefinedText, before |-> EmptyText,
     newUrl |-> NoUrl]

\* --------------------------------------------------------------------- diff
\* A JSON value: its type, the value of a scalar, the members of an object or
\* an array (an array has its indices as keys).
NoMembers == [k \in {} |-> ""]
Scalar(t, v) == [t |-> t, v |-> v, m |-> NoMembers]
Null == Scalar("null", "")
JsUndefined == Scalar("undefined", "")
Leaves == {Scalar("number", "1"), Scalar("string", "x"), Null}
Obj(f) == [t |-> "object", v |-> "", m |-> f]
Arr(f) == [t |-> "array", v |-> "", m |-> f]

ignoreKeys == {"name", "contentUrl", "configurationUrl", "manifestVersion", "$schema",
               "description"}

\* The keys and array indices of the trees that are compared.
ObjKeys == {"description", "id"}
ArrKeys == {"0"}
MembersOver(keys, values) == UNION {[used -> values] : used \in SUBSET keys}
Flat ==
    Leaves \cup {Obj(f) : f \in MembersOver(ObjKeys, Leaves)}
           \cup {Arr(f) : f \in MembersOver(ArrKeys, Leaves)}
Trees ==
    Leaves \cup {Obj(f) : f \in MembersOver(ObjKeys, Flat)}
           \cup {Arr(f) : f \in MembersOver(ArrKeys, Flat)}

\* typeof o === "object" && !!o
isObject(o) == o.t \in {"object", "array"}

\* Object.keys(o) of a value that is not null: own enumerable keys; a string
\* has its indices, a number none.
ObjectKeys(o) ==
    IF isObject(o) THEN DOMAIN o.m
    ELSE IF o.t = "string" THEN {"0"}
    ELSE {}

\* o[key]
Member(o, key) ==
    IF isObject(o) THEN (IF key \in DOMAIN o.m THEN o.m[key] ELSE JsUndefined)
    ELSE IF o.t = "string" /\ key = "0" THEN o
    ELSE JsUndefined

\* A comparison that holds for nothing.
StrictEquals_Never(x, y) == FALSE

\* x === y for two values that are not both objects of the two trees: two
\* distinct objects are never the same object.
StrictEquals(x, y) == ~isObject(x) /\ ~isObject(y) /\ x = y

\* A diff that skips no key: the two values are the same.
diff_SkipsNothing(a, b) == a = b

\* diff of two values that Object.keys accepts (lines 431-451).
RECURSIVE diff(_, _)
diff(a, b) ==
    IF Cardinality(ObjectKeys(a)) # Cardinality(ObjectKeys(b)) THEN FALSE
    ELSE \A key \in ObjectKeys(a) :
            \/ key \in ignoreKeys
            \/ LET aValue == Member(a, key)
                   bValue == Member(b, key)
               IN  IF isObject(aValue) /\ isObject(bValue)
                   THEN diff(aValue, bValue)
                   ELSE StrictEquals(aValue, bValue)

\* A call of diff: Object.keys throws a TypeError for null (lines 429-430).
diffOutcome(a, b) ==
    IF a = Null \/ b = Null THEN "throws"
    ELSE IF diff(a, b) THEN "true" ELSE "false"

NoDiff == [phase |-> "idle", a |-> Null, b |-> Null, outcome |-> "none"]

\* ------------------------------------------------ aad/update.ts, the values
\* What args.manifestPath, args.outputFilePath and the environment variable
\* read by loadCurrentState can be.
ArgValues == {JsUndefined, Scalar("string", ""), Scalar("number", "1"), Scalar("string", "x")}
EnvValues == {JsUndefined, Scalar("string", ""), Scalar("string", "x")}

\* manifest.preAuthorizedApplications: absent, or a list of applications.
Apps == {"a", "b"}
AppLists == UNION {[1..n -> Apps] : n \in 0..MaxApps}
NoList == [present |-> FALSE, list |-> <<>>]
ListOf(l) == [present |-> TRUE, list |-> l]
PreAuthValues == {NoList} \cup {ListOf(l) : l \in AppLists}

\* What can be thrown inside execute: a UserError, a SystemError, an Axios
\* error with the response of some status or with no response at all, any
\* other exception.
Statuses == {304, 400, 404, 499, 500}
Thrown(class, name, hasResponse, status) ==
    [class |-> class, name |-> name, hasResponse |-> hasResponse, status |-> status]
NoThrown == Thrown("none", "none", FALSE, 0)
InvalidActionInputError == Thrown("UserError", "InvalidActionInputError", FALSE, 0)
UnhandledUserError == Thrown("UserError", "UnhandledUserError", FALSE, 0)
UnhandledError == Thrown("SystemError", "UnhandledError", FALSE, 0)
TypeError == Thrown("Error", "TypeError", FALSE, 0)
Exceptions ==
    {Thrown("UserError", "UserError", FALSE, 0), Thrown("SystemError", "SystemError", FALSE, 0),
     Thrown("Error", "Error", FALSE, 0), Thrown("AxiosError", "AxiosError", FALSE, 0)}
        \cup {Thrown("AxiosError", "AxiosError", TRUE, st) : st \in Statuses}

\* No execute is running.
NoAad ==
    [pc |-> "idle",
     manifestPath |-> JsUndefined, outputFilePath |-> JsUndefined,
     state |-> JsUndefined,      \* AAD_APP_ACCESS_AS_USER_PERMISSION_ID
     manifest |-> NoList,        \* preAuthorizedApplications of the built manifest
     requests |-> <<>>,          \* preAuthorizedApplications of each manifest sent
     caught |-> NoThrown,        \* what the catch block received
     summaries |-> <<>>,
     returned |-> "none",        \* none, ok or err
     value |-> {},               \* the Map of an ok result
     error |-> NoThrown,         \* the error of an err result
     threw |-> NoThrown]         \* what execute itself rejected with

\* ------------------------------------- prerequisiteTaskTerminal.ts, the values
DebugSessionExists == "Debug session exists"
NoMessage == "no-error"

\* The terminal is not open.
NoTask ==
    [pc |-> "idle",
     skip |-> FALSE,             \* what checkAndSkipDebugging returned
     concurrent |-> FALSE,       \* session.id !== DebugNoSessionId
     events |-> {},              \* telemetry events sent
     checked |-> FALSE,          \* checkAndInstallForTask was called
     resolved |-> "none",        \* do(): none, ok, err or rejected
     message |-> NoMessage,      \* error.message of the error given to stop
     exit |-> <<>>,              \* the exit codes closeEmitter fired
     baseStop |-> FALSE]         \* super.stop was called

\* ------------------------------------------------------------------- Init
\* A project layout: which of the marker folder, the unified manifest template
\* and the three legacy files exist.  A legacy file under .fx implies .fx.
Layout(fx, uni, ls, lm, rm) ==
    [p \in Paths |->
        IF p = FxFolder THEN (IF fx THEN Dir ELSE Absent)
        ELSE IF p = UnifiedManifest THEN (IF uni THEN Original(p) ELSE Absent)
        ELSE IF p = localSettingsFile THEN (IF ls THEN Original(p) ELSE Absent)
        ELSE IF p = localManifestFile THEN (IF lm THEN Original(p) ELSE Absent)
        ELSE IF p = remoteManifestFile THEN (IF rm THEN Original(p) ELSE Absent)
        ELSE Absent]

Layouts ==
    {Layout(fx, uni, ls, lm, rm) : fx \in BOOLEAN, uni \in BOOLEAN, ls \in BOOLEAN,
                                   lm \in BOOLEAN, rm \in BOOLEAN}

WellFormed(f) == f[localSettingsFile] # Absent => f[FxFolder] = Dir

NewCall ==
    [method |-> NoMethod, hasPath |-> FALSE,
     detected |-> FALSE,    \* needConsolidateLocalRemote was evaluated
     need |-> FALSE,        \* what it returned
     overtaken |-> FALSE,   \* checkMethod cleared the latch after this prompt
     overlapped |-> FALSE,  \* another run was in progress during this call's run
     answers |-> <<>>,      \* every answer the prompt loop has received
     returned |-> "none",   \* what consolidateLocalRemote returned
     rb |-> "none",         \* the rollback: none, done or aborted
     mw |-> "idle",         \* where ProjectConsolidateMW stands
     up |-> "off",          \* where upgrade / consolidateLocalRemote stands
     answer |-> Undefined, prompts |-> 0, openUrls |-> 0,
     nextCalls |-> 0, result |-> NoResult, telemetry |-> {},
     fileList |-> <<>>, removeMap |-> <<>>, moveFiles |-> <<>>,
     manifest |-> NoManifest,
     fs0 |-> <<>>,          \* the project as consolidateLocalRemote found it
     warned |-> FALSE,      \* the different-manifest warning was shown
     error |-> NoError,     \* the e caught by consolidateLocalRemote
     thrown |-> NoError,    \* what upgrade's promise rejected with
     mwError |-> NoError,   \* what the middleware's promise rejected with
     rbIdx |-> 0,           \* position of the running rollback loop
     removed |-> <<>>,      \* what the delete loop of the rollback has removed
     post |-> "off",        \* postConsolidate: off, ignore (updating) or done
     report |-> "off",      \* generateUpgradeReport: off, copy, done or failed
     touched |-> FALSE]     \* the migrator of this call changed the filesystem

\* One intercepted call at a time, on any project.
Init ==
    /\ fs \in {f \in Layouts : WellFormed(f)}
    /\ configUnify \in BOOLEAN
    /\ spfx \in BOOLEAN
    /\ cmpKind \in CmpKinds
    /\ callers = {1}
    /\ userCancelFlag = FALSE
    /\ faults = MaxFaults
    /\ gitignore = {}
    /\ rewrite = NoRewrite
    /\ diffCall = NoDiff
    /\ aad = NoAad
    /\ task = NoTask
    /\ call = [c \in Calls |-> NewCall]

\* NumCalls interleaved calls on a legacy project.
InitCalls ==
    /\ fs = Layout(TRUE, FALSE, FALSE, TRUE, TRUE)
    /\ configUnify = TRUE
    /\ spfx \in BOOLEAN
    /\ cmpKind = "different"
    /\ callers = Calls
    /\ userCancelFlag = FALSE
    /\ faults = 0
    /\ gitignore = {}
    /\ rewrite = NoRewrite
    /\ diffCall = NoDiff
    /\ aad = NoAad
    /\ task = NoTask
    /\ call = [c \in Calls |-> NewCall]

Put(c, r) == call' = [call EXCEPT ![c] = r]

\* upgrade of this call is waiting for an answer or running the Transformer.
Active(r) == r.up \notin {"off", "cancelled", "done", "failed"}

\* consolidateLocalRemote of this call is in progress.
Running(r) == r.up \notin {"off", "prompt", "cancelled", "upNext", "done", "failed"}

\* consolidateLocalRemote of call c starts as r: it and every run already in
\* progress on the project overlap from here on.
PutStarting(c, r) ==
    call' = [d \in Calls |->
                IF d = c
                THEN [r EXCEPT !.overlapped = \E e \in Calls \ {c} : Running(call[e])]
                ELSE IF Running(call[d])
                     THEN [call[d] EXCEPT !.overlapped = TRUE]
                     ELSE call[d]]

\* Call c of a method outside the allow-list went through checkMethod, which
\* cleared userCancelFlag: every prompt fired under the latch is overtaken.
PutClearing(c, r) ==
    call' = [d \in Calls |->
                IF d = c THEN r
                ELSE IF Active(call[d]) /\ InAllowList(call[d].method)
                     THEN [call[d] EXCEPT !.overtaken = TRUE]
                     ELSE call[d]]

\* ------------------------------------------------------ ProjectConsolidateMW
\* The middleware from its entry to its first suspension.  migrate is the
\* answer of needMigrateToArmAndMultiEnv, m and p are ctx.method and
\* whether the inputs carry a projectPath, drawn from ms, ps and migs.
ProjectConsolidateMW(c, ms, ps, migs) ==
    /\ c \in callers
    /\ call[c].mw = "idle"
    /\ \E m \in ms, p \in ps, migrate \in migs :
        LET in == [call[c] EXCEPT !.method = m, !.hasPath = p]
            needed == needConsolidateLocalRemote(fs, p)
            here == [in EXCEPT !.detected = TRUE, !.need = needed]
        IN  IF migrate
            THEN \* next() is called and not awaited: the middleware returns.
                 /\ Put(c, [in EXCEPT !.nextCalls = @ + 1, !.mw = "returned"])
                 /\ UNCHANGED userCancelFlag
            ELSE IF needed
            THEN /\ userCancelFlag' = checkMethodFlag(m, userCancelFlag)
                 /\ IF checkMethodResult(m, userCancelFlag)
                    THEN LET shown == [here EXCEPT
                                 !.telemetry = @ \cup {"ProjectConsolidateNotificationStart"},
                                 !.prompts = @ + 1,
                                 !.up = "prompt"]
                         IN  IF showModalFor(m)
                             THEN PutClearing(c, [shown EXCEPT !.mw = "awaitUpgrade"])
                             ELSE Put(c, [shown EXCEPT !.mw = "awaitNext",
                                                       !.nextCalls = @ + 1])
                    ELSE Put(c, [here EXCEPT !.mw = "awaitNext", !.nextCalls = @ + 1])
            ELSE /\ Put(c, [here EXCEPT !.mw = "awaitNext", !.nextCalls = @ + 1])
                 /\ UNCHANGED userCancelFlag
    /\ UNCHANGED <<fs, envVars, faults>>

\* The awaited next() of lines 74 and 77 resolves: the downstream result is
\* in ctx.result and the middleware returns.
NextReturns(c) ==
    /\ call[c].mw = "awaitNext"
    /\ Put(c, [call[c] EXCEPT !.mw = "returned", !.result = NextResult])
    /\ UNCHANGED <<fs, envVars, userCancelFlag, faults>>

\* ------------------------------------------------------------------ upgrade
\* answer = res?.isOk() ? res.value : undefined
AnswerOf(res) == IF res[1] = "ok" THEN res[2] ELSE Undefined

\* A cancellation test that only looks for a missing answer.
IsCancel_FalsyOnly(a) == a = Undefined \/ a = ""

\* !answer || answer != upgradeButton
IsCancel(a) == a = Undefined \/ a = "" \/ a # upgradeButton

\* upgrade returned (e = NoError) or threw e: a middleware that awaits it
\* (the modal path) settles the same way; one that does not is left alone.
MwAfterUpgrade(r, e) ==
    IF r.mw = "awaitUpgrade"
    THEN [r EXCEPT !.mw = IF e = NoError THEN "returned" ELSE "rejected", !.mwError = e]
    ELSE r

\* A catch block of upgrade that rethrows without telemetry.
UpgradeThrows_NoTelemetry(r, e) ==
    MwAfterUpgrade([r EXCEPT !.thrown = e, !.up = "failed"], e)

\* The catch block of upgrade: telemetry, then the error is thrown again.
UpgradeThrows(r, e) ==
    MwAfterUpgrade([r EXCEPT !.telemetry = @ \cup {"ProjectConsolidateError"},
                             !.thrown = e, !.up = "failed"], e)

\* A prompt loop that asks again without opening the link.
AnswerLearnMore_NoOpenUrl(c) ==
    /\ call[c].up = "prompt"
    /\ call[c].prompts <= MaxLearnMore
    /\ \E res \in ShowMessageResults :
        /\ AnswerOf(res) = LearnMore
        /\ Put(c, [call[c] EXCEPT !.answer = AnswerOf(res),
                                  !.answers = Append(@, AnswerOf(res)),
                                  !.prompts = @ + 1])
    /\ UNCHANGED <<fs, envVars, userCancelFlag, faults>>

\* The user answers "Learn More": the link is opened and the prompt shown again.
AnswerLearnMore(c) ==
    /\ call[c].up = "prompt"
    /\ call[c].prompts <= MaxLearnMore
    /\ \E res \in ShowMessageResults :
        /\ AnswerOf(res) = LearnMore
        /\ Put(c, [call[c] EXCEPT !.answer = AnswerOf(res),
                                  !.answers = Append(@, AnswerOf(res)),
                                  !.openUrls = @ + 1, !.prompts = @ + 1])
    /\ UNCHANGED <<fs, envVars, userCancelFlag, faults>>

\* Any answer that is neither "Learn More" nor "Upgrade" cancels.
AnswerCancel(c, results) ==
    /\ call[c].up = "prompt"
    /\ \E res \in results :
        /\ AnswerOf(res) # LearnMore
        /\ IsCancel(AnswerOf(res))
        /\ Put(c, MwAfterUpgrade(
                    [call[c] EXCEPT
                        !.answer = AnswerOf(res),
                        !.answers = Append(@, AnswerOf(res)),
                        !.telemetry = @ \cup {"ProjectConsolidateNotification:Cancel"},
                        !.result = ConsolidateCanceledError,
                        !.up = "cancelled"], NoError))
    /\ UNCHANGED <<fs, envVars, userCancelFlag, faults>>

\* "Upgrade": consolidateLocalRemote starts and suspends in loadProjectSettings.
AnswerUpgrade(c) ==
    /\ call[c].up = "prompt"
    /\ \E res \in ShowMessageResults :
        /\ AnswerOf(res) # LearnMore
        /\ ~IsCancel(AnswerOf(res))
        /\ PutStarting(c, [call[c] EXCEPT
                        !.answer = AnswerOf(res),
                        !.answers = Append(@, AnswerOf(res)),
                        !.telemetry = @ \cup {"ProjectConsolidateNotification:OK",
                                              "ProjectConsolidateUpgradeStart"},
                        !.fileList = <<>>, !.removeMap = <<>>, !.moveFiles = <<>>,
                        !.fs0 = fs, !.up = "load"])
    /\ UNCHANGED <<fs, envVars, userCancelFlag, faults>>

\* ----------------------------------------------------- consolidateLocalRemote
Append2(q, x) == q \o <<x>>

\* The catch block is entered with e: the first rollback loop that has work.
Catch(r, e) ==
    [r EXCEPT !.error = e, !.rbIdx = 1,
              !.up = IF Len(r.removeMap) > 0 THEN "rbRestore"
                     ELSE IF Len(r.fileList) > 0 THEN "rbDelete"
                     ELSE "rbBackup"]

\* An operation fails because the environment makes it fail.
Inject == faults > 0 /\ faults' = faults - 1

\* loadProjectSettings resolves.  On an error result consolidateLocalRemote
\* returns false, which upgrade ignores: it goes on to await next().
LoadProjectSettings(c) ==
    /\ call[c].up = "load"
    /\ \/ /\ Put(c, [call[c] EXCEPT
                        !.telemetry = @ \cup {"ProjectConsolidateAddLocalEnvStart"},
                        !.up = "writeEnv"])
          /\ UNCHANGED faults
       \/ /\ Inject
          /\ Put(c, [call[c] EXCEPT !.result = LoadSettingsError, !.returned = "false",
                                    !.nextCalls = @ + 1, !.up = "upNext"])
    /\ UNCHANGED <<fs, envVars, userCancelFlag>>

\* Where environmentManager.writeEnvConfig persists the local environment.
EnvConfigPath == EnvLocalFile

\* Step 1: environmentManager.writeEnvConfig resolves.
WriteEnvConfig(c) ==
    /\ call[c].up = "writeEnv"
    /\ \/ /\ fs' = [fs EXCEPT ![EnvConfigPath] = "env-config:local", ![FxFolder] = Dir]
          /\ Put(c, [call[c] EXCEPT
                        !.fileList = Append2(@, EnvLocalFile),
                        !.telemetry = @ \cup {"ProjectConsolidateAddLocalEnv"},
                        !.touched = TRUE, !.up = "manifest"])
          /\ UNCHANGED faults
       \/ /\ Inject
          /\ Put(c, Catch(call[c], "writeEnvConfig-error"))
          /\ UNCHANGED fs
    /\ UNCHANGED <<envVars, userCancelFlag>>

\* The path consolidateLocalRemote records for step 2 (line 247).
RecordedManifestPath == TemplateManifest

\* getManifestTemplatePath: where step 2 writes the unified manifest template.
getManifestTemplatePath == UnifiedManifest

\* Step 2: pathExists(remoteManifestFile) resolves.
AddManifest(c) ==
    /\ call[c].up = "manifest"
    /\ IF Exists(fs, remoteManifestFile)
       THEN IF spfx
            THEN Put(c, [call[c] EXCEPT
                            !.telemetry = @ \cup {"ProjectConsolidateAddSPFXManifestStart"},
                            !.up = "readManifest"])
            ELSE Put(c, [call[c] EXCEPT
                            !.telemetry = @ \cup {"ProjectConsolidateCopyAzureManifestStart"},
                            !.up = "copyManifest"])
       ELSE Put(c, [call[c] EXCEPT !.fileList = Append2(@, RecordedManifestPath),
                                   !.telemetry = @ \cup {"ProjectConsolidateBackupConfigStart"},
                                   !.up = "ls.exists"])
    /\ UNCHANGED <<fs, envVars, userCancelFlag, faults>>

\* What the SPFx branch writes: the remote manifest with its tab URLs rewritten.
SPFxRewrite(content) == "spfx:" \o content

\* SPFx: readFile and JSON.parse of the remote manifest, the tabs rewritten.
ReadManifest(c) ==
    /\ call[c].up = "readManifest"
    /\ \/ /\ Exists(fs, remoteManifestFile)
          /\ Put(c, [call[c] EXCEPT !.manifest = SPFxRewrite(fs[remoteManifestFile]),
                                    !.up = "writeManifest"])
          /\ UNCHANGED faults
       \/ /\ ~Exists(fs, remoteManifestFile)
          /\ Put(c, Catch(call[c], "ENOENT"))
          /\ UNCHANGED faults
       \/ /\ Inject
          /\ Put(c, Catch(call[c], "readManifest-error"))
    /\ UNCHANGED <<fs, envVars, userCancelFlag>>

\* SPFx: writeFile of the unified manifest template.
WriteManifest(c) ==
    /\ call[c].up = "writeManifest"
    /\ \/ /\ fs' = [fs EXCEPT ![getManifestTemplatePath] = call[c].manifest]
          /\ Put(c, [call[c] EXCEPT
                        !.fileList = Append2(@, RecordedManifestPath),
                        !.telemetry = @ \cup {"ProjectConsolidateAddSPFXManifest",
                                              "ProjectConsolidateBackupConfigStart"},
                        !.touched = TRUE, !.up = "ls.exists"])
          /\ UNCHANGED faults
       \/ /\ Inject
          /\ Put(c, Catch(call[c], "writeManifest-error"))
          /\ UNCHANGED fs
    /\ UNCHANGED <<envVars, userCancelFlag>>

\* Not SPFx: copyFile of the remote manifest to the unified manifest template.
CopyManifest(c) ==
    /\ call[c].up = "copyManifest"
    /\ \/ /\ Exists(fs, remoteManifestFile)
          /\ fs' = [fs EXCEPT ![getManifestTemplatePath] = fs[remoteManifestFile]]
          /\ Put(c, [call[c] EXCEPT
                        !.fileList = Append2(@, RecordedManifestPath),
                        !.telemetry = @ \cup {"ProjectConsolidateCopyAzureManifest",
                                              "ProjectConsolidateBackupConfigStart"},
                        !.touched = TRUE, !.up = "ls.exists"])
          /\ UNCHANGED faults
       \/ /\ ~Exists(fs, remoteManifestFile)
          /\ Put(c, Catch(call[c], "ENOENT"))
          /\ UNCHANGED <<fs, faults>>
       \/ /\ Inject
          /\ Put(c, Catch(call[c], "copyManifest-error"))
          /\ UNCHANGED fs
    /\ UNCHANGED <<envVars, userCancelFlag>>

\* Steps 3, 5 and 6 move one legacy file each into the backup folder; the
\* three blocks of the code differ in the file only.
MoveSteps == {"ls", "lm", "rm"}
FileOf(k) == IF k = "ls" THEN localSettingsFile
             ELSE IF k = "lm" THEN localManifestFile ELSE remoteManifestFile
NameOf(k) == IF k = "ls" THEN "localSettings.json"
             ELSE IF k = "lm" THEN "manifest.local.template.json"
             ELSE "manifest.remote.template.json"
\* Where the code goes after the block of k.
AfterMove(k) == IF k = "ls" THEN "cmp.exists" ELSE IF k = "lm" THEN "rm.exists" ELSE "finish"

\* postConsolidate and generateUpgradeReport are started and not awaited,
\* consolidateLocalRemote returns true and upgrade calls next().
Finish(r) ==
    [r EXCEPT !.telemetry = @ \cup {"ProjectConsolidateBackupConfig",
                                    "ProjectConsolidateUpgrade",
                                    "ProjectConsolidateGuideStart"},
              !.post = "ignore", !.report = "copy",
              !.returned = "true", !.nextCalls = @ + 1, !.up = "upNext"]

Goto(r, pc) == IF pc = "finish" THEN Finish(r) ELSE [r EXCEPT !.up = pc]

\* A move that records the file in removeMap before it is copied.
BackupExists_RecordsEarly(c) ==
    \E k \in MoveSteps :
        /\ call[c].up = k \o ".exists"
        /\ IF Exists(fs, FileOf(k))
           THEN Put(c, [call[c] EXCEPT
                          !.removeMap = Append2(@, <<BackupOf(FileOf(k)), FileOf(k)>>),
                          !.up = k \o ".copy"])
           ELSE Put(c, Goto(call[c], AfterMove(k)))
        /\ UNCHANGED <<fs, envVars, userCancelFlag, faults>>

\* pathExists of the legacy file of block k resolves.
BackupExists(c) ==
    \E k \in MoveSteps :
        /\ call[c].up = k \o ".exists"
        /\ IF Exists(fs, FileOf(k))
           THEN Put(c, [call[c] EXCEPT !.up = k \o ".copy"])
           ELSE Put(c, Goto(call[c], AfterMove(k)))
        /\ UNCHANGED <<fs, envVars, userCancelFlag, faults>>

\* A move whose copy resolves without having written the backup file.
BackupCopy_WritesNothing(c) ==
    \E k \in MoveSteps :
        /\ call[c].up = k \o ".copy"
        /\ Put(c, [call[c] EXCEPT !.up = k \o ".remove"])
        /\ UNCHANGED <<fs, envVars, userCancelFlag, faults>>

\* fs.copy of the legacy file into the backup folder resolves.
BackupCopy(c) ==
    \E k \in MoveSteps :
        /\ call[c].up = k \o ".copy"
        /\ \/ /\ Exists(fs, FileOf(k))
              /\ fs' = [fs EXCEPT ![BackupOf(FileOf(k))] = fs[FileOf(k)],
                                  ![backupFolder] = Dir]
              /\ Put(c, [call[c] EXCEPT !.touched = TRUE, !.up = k \o ".remove"])
              /\ UNCHANGED faults
           \/ /\ ~Exists(fs, FileOf(k))
              /\ Put(c, Catch(call[c], "ENOENT"))
              /\ UNCHANGED <<fs, faults>>
           \/ /\ Inject
              /\ Put(c, Catch(call[c], "copy-error"))
              /\ UNCHANGED fs
        /\ UNCHANGED <<envVars, userCancelFlag>>

\* A move that records the file without removing the original.
BackupRemove_KeepsOriginal(c) ==
    \E k \in MoveSteps :
        /\ call[c].up = k \o ".remove"
        /\ Put(c, Goto([call[c] EXCEPT
                          !.moveFiles = Append2(@, NameOf(k)),
                          !.removeMap = Append2(@, <<BackupOf(FileOf(k)), FileOf(k)>>)],
                       AfterMove(k)))
        /\ UNCHANGED <<fs, envVars, userCancelFlag, faults>>

\* fs.remove of the legacy file resolves; the move is then recorded.
BackupRemove(c) ==
    \E k \in MoveSteps :
        /\ call[c].up = k \o ".remove"
        /\ \/ /\ fs' = [fs EXCEPT ![FileOf(k)] = Absent]
              /\ Put(c, Goto([call[c] EXCEPT
                                !.moveFiles = Append2(@, NameOf(k)),
                                !.removeMap = Append2(@, <<BackupOf(FileOf(k)), FileOf(k)>>),
                                !.touched = TRUE],
                             AfterMove(k)))
              /\ UNCHANGED faults
           \/ /\ Inject
              /\ Put(c, Catch(call[c], "remove-error"))
              /\ UNCHANGED fs
        /\ UNCHANGED <<envVars, userCancelFlag>>

\* A step 4 that compares whatever exists.
CompareExists_Always(c) ==
    /\ call[c].up = "cmp.exists"
    /\ Put(c, [call[c] EXCEPT !.up = "cmp.read"])
    /\ UNCHANGED <<fs, envVars, userCancelFlag, faults>>

\* Step 4: the two pathExists of line 279 resolve.
CompareExists(c) ==
    /\ call[c].up = "cmp.exists"
    /\ IF Exists(fs, localManifestFile) /\ Exists(fs, remoteManifestFile)
       THEN Put(c, [call[c] EXCEPT !.up = "cmp.read"])
       ELSE Put(c, [call[c] EXCEPT !.up = "lm.exists"])
    /\ UNCHANGED <<fs, envVars, userCancelFlag, faults>>

\* A comparison that lets its outcome out: manifests that differ, or that
\* cannot be read or parsed, end the forward pass.
compareLocalAndRemoteManifest_Throws(c) ==
    /\ call[c].up = "cmp.read"
    /\ IF cmpKind = "same"
       THEN Put(c, [call[c] EXCEPT !.up = "lm.exists"])
       ELSE Put(c, Catch(call[c], "manifest-error"))
    /\ UNCHANGED <<fs, envVars, userCancelFlag, faults>>

\* compareLocalAndRemoteManifest resolves: it warns (without waiting) when
\* the manifests differ and swallows every error.
compareLocalAndRemoteManifest(c) ==
    /\ call[c].up = "cmp.read"
    /\ \/ /\ Exists(fs, localManifestFile) /\ Exists(fs, remoteManifestFile)
          /\ cmpKind = "same"
          /\ Put(c, [call[c] EXCEPT !.up = "lm.exists"])
          /\ UNCHANGED faults
       \/ /\ Exists(fs, localManifestFile) /\ Exists(fs, remoteManifestFile)
          /\ cmpKind = "different"
          /\ Put(c, [call[c] EXCEPT !.warned = TRUE, !.up = "lm.exists"])
          /\ UNCHANGED faults
       \/ /\ \/ ~Exists(fs, localManifestFile)
             \/ ~Exists(fs, remoteManifestFile)
             \/ cmpKind = "unparsable"
          /\ Put(c, [call[c] EXCEPT
                        !.telemetry = @ \cup {"ProjectConsolidateCheckManifestError"},
                        !.up = "lm.exists"])
          /\ UNCHANGED faults
       \/ /\ Inject
          /\ Put(c, [call[c] EXCEPT
                        !.telemetry = @ \cup {"ProjectConsolidateCheckManifestError"},
                        !.up = "lm.exists"])
    /\ UNCHANGED <<fs, envVars, userCancelFlag>>

\* A downstream next() that upgrade awaits and that never settles.
UpgradeNext_NeverSettles(c) ==
    /\ call[c].up = "upNext"
    /\ Put(c, call[c])
    /\ UNCHANGED <<fs, envVars, userCancelFlag, faults>>

\* The next() awaited by upgrade (line 110) resolves or rejects.
UpgradeNext(c) ==
    /\ call[c].up = "upNext"
    /\ \/ /\ Put(c, MwAfterUpgrade([call[c] EXCEPT !.result = NextResult, !.up = "done"],
                                   NoError))
          /\ UNCHANGED faults
       \/ /\ Inject
          /\ Put(c, UpgradeThrows(call[c], "next-error"))
    /\ UNCHANGED <<fs, envVars, userCancelFlag>>

\* ------------------------------------------------------------------ rollback
\* Leaving the restore loop at entry i, or the delete loop at entry j.
AfterRestore(r) ==
    IF r.rbIdx < Len(r.removeMap) THEN [r EXCEPT !.rbIdx = @ + 1]
    ELSE IF Len(r.fileList) > 0 THEN [r EXCEPT !.rbIdx = 1, !.up = "rbDelete"]
    ELSE [r EXCEPT !.up = "rbBackup"]

AfterDelete(r) ==
    IF r.rbIdx < Len(r.fileList) THEN [r EXCEPT !.rbIdx = @ + 1]
    ELSE [r EXCEPT !.up = "rbBackup"]

\* A restore loop that walks the entries without copying them back.
RestoreBackup_NoCopy(c) ==
    /\ call[c].up = "rbRestore"
    /\ Put(c, AfterRestore(call[c]))
    /\ UNCHANGED <<fs, envVars, userCancelFlag, faults>>

\* for (const item of removeMap.entries()) await fs.copy(item[0], item[1])
RestoreBackup(c) ==
    /\ call[c].up = "rbRestore"
    /\ LET item == call[c].removeMap[call[c].rbIdx]
       IN \/ /\ Exists(fs, item[1])
             /\ fs' = [fs EXCEPT ![item[2]] = fs[item[1]]]
             /\ Put(c, AfterRestore([call[c] EXCEPT !.touched = TRUE]))
             /\ UNCHANGED faults
          \/ /\ ~Exists(fs, item[1])
             /\ Put(c, UpgradeThrows([call[c] EXCEPT !.rb = "aborted"], "restore-ENOENT"))
             /\ UNCHANGED <<fs, faults>>
          \/ /\ Inject
             /\ Put(c, UpgradeThrows([call[c] EXCEPT !.rb = "aborted"], "restore-error"))
             /\ UNCHANGED fs
    /\ UNCHANGED <<envVars, userCancelFlag>>

\* A delete loop that goes through fileList from its last entry to its first.
DeleteCreated_Reverse(c) ==
    /\ call[c].up = "rbDelete"
    /\ LET item == call[c].fileList[Len(call[c].fileList) + 1 - call[c].rbIdx]
       IN /\ fs' = [fs EXCEPT ![item] = Absent]
          /\ Put(c, AfterDelete([call[c] EXCEPT !.touched = TRUE,
                                                !.removed = Append2(@, item)]))
    /\ UNCHANGED <<envVars, userCancelFlag, faults>>

\* for (const item of fileList) await fs.remove(item)
DeleteCreated(c) ==
    /\ call[c].up = "rbDelete"
    /\ LET item == call[c].fileList[call[c].rbIdx]
       IN \/ /\ fs' = [fs EXCEPT ![item] = Absent]
             /\ Put(c, AfterDelete([call[c] EXCEPT !.touched = TRUE,
                                                   !.removed = Append2(@, item)]))
             /\ UNCHANGED faults
          \/ /\ Inject
             /\ Put(c, UpgradeThrows([call[c] EXCEPT !.rb = "aborted"], "delete-error"))
             /\ UNCHANGED fs
    /\ UNCHANGED <<envVars, userCancelFlag>>

\* A rollback that ends by throwing an error of its own.
RemoveBackupFolder_ThrowsNew(c) ==
    /\ call[c].up = "rbBackup"
    /\ fs' = [p \in Paths |->
                IF UnderBackup(p) THEN Absent ELSE fs[p]]
    /\ Put(c, UpgradeThrows([call[c] EXCEPT !.touched = TRUE, !.rb = "done"],
                             "consolidate-failed"))
    /\ UNCHANGED <<envVars, userCancelFlag, faults>>

\* await fs.remove(<project>/.backup); throw e
RemoveBackupFolder(c) ==
    /\ call[c].up = "rbBackup"
    /\ \/ /\ fs' = [p \in Paths |->
                      IF UnderBackup(p) THEN Absent ELSE fs[p]]
          /\ Put(c, UpgradeThrows([call[c] EXCEPT !.touched = TRUE, !.rb = "done"],
                                   call[c].error))
          /\ UNCHANGED faults
       \/ /\ Inject
          /\ Put(c, UpgradeThrows([call[c] EXCEPT !.rb = "aborted"], "removeBackup-error"))
          /\ UNCHANGED fs
    /\ UNCHANGED <<envVars, userCancelFlag>>

\* ------------------------------------------------- tasks started on success
\* addPathToGitignore adds the path unless the ignore file has it already.
addPathToGitignore(ignored, entry) == ignored \cup {entry}

\* The three addPathToGitignore calls of updateGitIgnore.
updateGitIgnore(ignored) ==
    addPathToGitignore(
        addPathToGitignore(
            addPathToGitignore(ignored, ".fx/configs/config.local.json"),
            ".fx/states/state.local.json"),
        backupFolder)

\* postConsolidate, started and not awaited at line 312: the awaited
\* updateGitIgnore resolves and the completion messages are logged.
postConsolidate(c) ==
    /\ call[c].post = "ignore"
    /\ gitignore' = updateGitIgnore(gitignore)
    /\ Put(c, [call[c] EXCEPT !.post = "done"])
    /\ UNCHANGED <<fs, projVars, userCancelFlag, faults>>

\* A report task that ends without copying the report.
generateUpgradeReport_NoCopy(c) ==
    /\ call[c].report = "copy"
    /\ Put(c, [call[c] EXCEPT !.report = "done"])
    /\ UNCHANGED <<fs, envVars, userCancelFlag, faults>>

\* generateUpgradeReport, started and not awaited at line 324: fs.copyFile
\* into the backup folder resolves or throws; the error is swallowed.
generateUpgradeReport(c) ==
    /\ call[c].report = "copy"
    /\ \/ /\ Exists(fs, backupFolder)
          /\ fs' = [fs EXCEPT ![ReportFile] = "upgrade-report"]
          /\ Put(c, [call[c] EXCEPT !.report = "done"])
          /\ UNCHANGED faults
       \/ /\ ~Exists(fs, backupFolder)
          /\ Put(c, [call[c] EXCEPT !.report = "failed"])
          /\ UNCHANGED <<fs, faults>>
       \/ /\ Inject
          /\ Put(c, [call[c] EXCEPT !.report = "failed"])
          /\ UNCHANGED fs
    /\ UNCHANGED <<envVars, userCancelFlag>>

\* ---------------------------------------------------------------------- calls
Settled(r) ==
    /\ r.mw \in {"returned", "rejected"}
    /\ r.up \in {"off", "cancelled", "done", "failed"}
    /\ r.post # "ignore"
    /\ r.report # "copy"

\* A settled call is forgotten; its slot serves the next intercepted call.
Forget(c) ==
    /\ Settled(call[c])
    /\ Put(c, NewCall)
    /\ UNCHANGED <<fs, envVars, userCancelFlag, faults>>

Transformer(c) ==
    \/ LoadProjectSettings(c)
    \/ WriteEnvConfig(c)
    \/ AddManifest(c)
    \/ ReadManifest(c)
    \/ WriteManifest(c)
    \/ CopyManifest(c)
    \/ BackupExists(c)
    \/ BackupCopy(c)
    \/ BackupRemove(c)
    \/ CompareExists(c)
    \/ compareLocalAndRemoteManifest(c)
    \/ RestoreBackup(c)
    \/ DeleteCreated(c)
    \/ RemoveBackupFolder(c)

Next ==
    \E c \in Calls :
        \/ ProjectConsolidateMW(c, Methods, BOOLEAN, BOOLEAN)
        \/ NextReturns(c)
        \/ AnswerLearnMore(c)
        \/ AnswerCancel(c, ShowMessageResults)
        \/ AnswerUpgrade(c)
        \/ Transformer(c)
        \/ UpgradeNext(c)
        \/ postConsolidate(c)
        \/ generateUpgradeReport(c)
        \/ Forget(c)

\* Interleaved calls: one allow-listed and one other method, on inputs that
\* pass needMigrateToArmAndMultiEnv and carry a project path; the prompt is
\* answered "Upgrade" or dismissed.
CallsMethods == {"getProjectConfig", "provisionResources"}

NextCalls ==
    \E c \in Calls :
        \/ ProjectConsolidateMW(c, CallsMethods, {TRUE}, {FALSE})
        \/ NextReturns(c)
        \/ AnswerCancel(c, {<<"ok", Undefined>>})
        \/ AnswerUpgrade(c)
        \/ Transformer(c)
        \/ UpgradeNext(c)
        \/ postConsolidate(c)
        \/ generateUpgradeReport(c)
        \/ Forget(c)

\* Interleaved calls of a method outside the allow-list, each answered
\* "Upgrade", on a legacy project where one operation fails.
InitFaulty ==
    /\ fs = Layout(TRUE, FALSE, FALSE, TRUE, TRUE)
    /\ configUnify = TRUE
    /\ spfx \in BOOLEAN
    /\ cmpKind = "different"
    /\ callers = Calls
    /\ userCancelFlag = FALSE
    /\ faults = MaxFaults - 1
    /\ gitignore = {}
    /\ rewrite = NoRewrite
    /\ diffCall = NoDiff
    /\ aad = NoAad
    /\ task = NoTask
    /\ call = [c \in Calls |-> NewCall]

NextFaulty ==
    \E c \in Calls :
        \/ ProjectConsolidateMW(c, {"provisionResources"}, {TRUE}, {FALSE})
        \/ AnswerUpgrade(c)
        \/ Transformer(c)
        \/ UpgradeNext(c)
        \/ postConsolidate(c)
        \/ generateUpgradeReport(c)
        \/ Forget(c)

\* ------------------------------------------------ the tab loops on their own
\* No call is intercepted.
NoCalls ==
    /\ configUnify = TRUE
    /\ callers = {}
    /\ userCancelFlag = FALSE
    /\ faults = 0
    /\ gitignore = {}
    /\ call = [c \in Calls |-> NewCall]

callVars == <<fs, configUnify, spfx, cmpKind, callers, userCancelFlag, faults, gitignore, call,
              aad, task>>

\* let componentId = "" (line 209) for the parsed manifest of an SPFx project.
InitTabs ==
    /\ NoCalls
    /\ fs = Layout(TRUE, FALSE, FALSE, FALSE, TRUE)
    /\ spfx = TRUE /\ cmpKind = "same"
    /\ rewrite = [NoRewrite EXCEPT !.phase = "static"]
    /\ diffCall = NoDiff
    /\ aad = NoAad
    /\ task = NoTask

tabVars == <<callVars, diffCall>>

\* One turn of manifest.staticTabs.forEach (lines 211-222).
StaticTab ==
    /\ rewrite.phase = "static" /\ rewrite.n < MaxTabs
    /\ \E entityId \in EntityIds, contentUrl \in Urls :
        LET componentId == IF NeedsExtract(contentUrl, entityId)
                           THEN replaceSPFxComponentId(contentUrl)
                           ELSE entityId
        IN  rewrite' = [rewrite EXCEPT
                           !.componentId = componentId, !.n = @ + 1,
                           !.kind = "static", !.entityId = entityId,
                           !.url = contentUrl, !.before = rewrite.componentId,
                           !.newUrl = Format("REMOTE_CONTENT_URL", componentId, componentId)]
    /\ UNCHANGED tabVars

\* manifest.staticTabs is absent, empty or through.
StaticTabsEnd ==
    /\ rewrite.phase = "static"
    /\ rewrite' = [rewrite EXCEPT !.phase = "configurable", !.n = 0]
    /\ UNCHANGED tabVars

\* One turn of manifest.configurableTabs.forEach (lines 225-235).
ConfigurableTab ==
    /\ rewrite.phase = "configurable" /\ rewrite.n < MaxTabs
    /\ \E configurationUrl \in Urls :
        LET componentId == IF NeedsExtract(configurationUrl, rewrite.componentId)
                           THEN replaceSPFxComponentId(configurationUrl)
                           ELSE rewrite.componentId
        IN  rewrite' = [rewrite EXCEPT
                           !.componentId = componentId, !.n = @ + 1,
                           !.kind = "configurable", !.entityId = UndefinedText,
                           !.url = configurationUrl, !.before = rewrite.componentId,
                           !.newUrl = Format("REMOTE_CONFIGURATION_URL",
                                             componentId, componentId)]
    /\ UNCHANGED tabVars

\* manifest.configurableTabs is absent, empty or through: the manifest is
\* written (line 237).
ConfigurableTabsEnd ==
    /\ rewrite.phase = "configurable"
    /\ rewrite' = [rewrite EXCEPT !.phase = "written"]
    /\ UNCHANGED tabVars

NextTabs == StaticTab \/ StaticTabsEnd \/ ConfigurableTab \/ ConfigurableTabsEnd

\* ------------------------------------------------------------ diff on its own
\* The local and the remote manifest template of a project are about to be
\* compared.
InitDiff ==
    /\ NoCalls
    /\ fs = Layout(TRUE, FALSE, FALSE, TRUE, TRUE)
    /\ spfx = FALSE /\ cmpKind = "same"
    /\ rewrite = NoRewrite
    /\ diffCall = NoDiff
    /\ aad = NoAad
    /\ task = NoTask

\* diff(localManifestJson, remoteManifestJson) of line 411, on any two trees.
DiffManifests ==
    /\ diffCall.phase = "idle"
    /\ \E a \in Trees, b \in Trees :
          diffCall' = [phase |-> "compared", a |-> a, b |-> b,
                       outcome |-> diffOutcome(a, b)]
    /\ UNCHANGED <<callVars, rewrite>>

NextDiff == DiffManifests

\* ------------------------------------------------------------ aad/update.ts
\* Everything but the two drivers.
baseVars == <<fs, configUnify, spfx, cmpKind, callers, userCancelFlag, faults, gitignore,
              rewrite, diffCall, call>>

\* !v of a string, a number or undefined
Falsy(v) == v.t \in {"undefined", "null"} \/ (v.t = "string" /\ v.v = "")

\* validateArgs (lines 127-140): the invalid parameters, in the order found.
validateArgs(manifestPath, outputFilePath) ==
    (IF manifestPath.t # "string" \/ Falsy(manifestPath) THEN <<"manifestPath">> ELSE <<>>)
        \o (IF outputFilePath.t # "string" \/ Falsy(outputFilePath)
            THEN <<"outputFilePath">> ELSE <<>>)

\* Object.entries(state) without the entries that are empty (lines 80-83).
StateMap(state) ==
    IF Falsy(state) THEN {} ELSE {<<"AAD_APP_ACCESS_AS_USER_PERMISSION_ID", state.v>>}

\* A test of line 58 that never finds applications to take out.
HasPreAuthorized_Never(manifest) == FALSE

\* manifest.preAuthorizedApplications && manifest.preAuthorizedApplications.length > 0
HasPreAuthorized(manifest) == manifest.present /\ Len(manifest.list) > 0

\* The catch block of execute (lines 87-122) for the exception e.  Reading
\* error.response!.data of an Axios error without a response throws a
\* TypeError out of the catch block.
ExecuteCatch(r, e) ==
    LET err(x) == [r EXCEPT !.pc = "done", !.caught = e, !.returned = "err", !.error = x]
    IN  IF e.class \in {"UserError", "SystemError"} THEN err(e)
        ELSE IF e.class = "AxiosError"
        THEN IF ~e.hasResponse
             THEN [r EXCEPT !.pc = "done", !.caught = e, !.threw = TypeError]
             ELSE IF e.status >= 400 /\ e.status < 500
                  THEN err(UnhandledUserError)
                  ELSE err(UnhandledError)
        ELSE err(UnhandledError)

\* execute is called: loadCurrentState, validateArgs, and buildAadManifest is
\* awaited (lines 42-53).
Execute ==
    /\ aad.pc = "idle"
    /\ \E manifestPath \in ArgValues, outputFilePath \in ArgValues, state \in EnvValues :
        LET r == [aad EXCEPT !.manifestPath = manifestPath,
                             !.outputFilePath = outputFilePath, !.state = state]
        IN  IF validateArgs(manifestPath, outputFilePath) # <<>>
            THEN aad' = ExecuteCatch(r, InvalidActionInputError)
            ELSE aad' = [r EXCEPT !.pc = "build"]
    /\ UNCHANGED <<baseVars, task>>

\* buildAadManifest resolves with a manifest, and the first updateAadApp
\* request is sent (line 61 or line 65); or it throws.
BuildAadManifest ==
    /\ aad.pc = "build"
    /\ \/ \E manifest \in PreAuthValues :
            aad' = IF HasPreAuthorized(manifest)
                   THEN [aad EXCEPT !.manifest = manifest, !.pc = "first",
                                    !.requests = Append(@, ListOf(<<>>))]
                   ELSE [aad EXCEPT !.manifest = manifest, !.pc = "full",
                                    !.requests = Append(@, manifest)]
       \/ \E e \in Exceptions : aad' = ExecuteCatch(aad, e)
    /\ UNCHANGED <<baseVars, task>>

\* The request of line 61 resolves, the list is put back and the request of
\* line 65 is sent; or the request throws.
FirstUpdateAadApp ==
    /\ aad.pc = "first"
    /\ \/ aad' = [aad EXCEPT !.pc = "full", !.requests = Append(@, aad.manifest)]
       \/ \E e \in Exceptions : aad' = ExecuteCatch(aad, e)
    /\ UNCHANGED <<baseVars, task>>

\* The request of line 65 resolves and execute returns ok with one summary
\* (lines 66-86); or the request throws.
FullUpdateAadApp ==
    /\ aad.pc = "full"
    /\ \/ aad' = [aad EXCEPT !.pc = "done", !.returned = "ok",
                              !.value = StateMap(aad.state),
                              !.summaries = Append(@, "successUpdateAadAppManifest")]
       \/ \E e \in Exceptions : aad' = ExecuteCatch(aad, e)
    /\ UNCHANGED <<baseVars, task>>

\* The driver is run again.
ExecuteAgain ==
    /\ aad.pc = "done"
    /\ aad' = NoAad
    /\ UNCHANGED <<baseVars, task>>

\* ---------------------------------------------- prerequisiteTaskTerminal.ts
\* The terminal is opened and do() runs to its first await (lines 44-74):
\* with a debug session running the callback throws, otherwise the
\* debug-all-start event is sent.
do ==
    /\ task.pc = "idle"
    /\ \E skip \in BOOLEAN, concurrent \in BOOLEAN :
        task' = IF skip
                THEN [task EXCEPT !.skip = TRUE, !.concurrent = concurrent,
                                  !.resolved = "rejected",
                                  !.message = DebugSessionExists, !.pc = "settled"]
                ELSE [task EXCEPT !.skip = FALSE, !.concurrent = concurrent,
                                  !.events = @ \cup {"debug-all-start"},
                                  !.pc = "sendStart"]
    /\ UNCHANGED <<baseVars, aad>>

\* The messages an error other than the one of line 72 can carry.
Messages == {DebugSessionExists, "other"}

\* sendDebugAllStartEvent resolves and _do calls checkAndInstallForTask
\* (lines 75-90); or it rejects.
sendDebugAllStartEvent ==
    /\ task.pc = "sendStart"
    /\ \/ task' = [task EXCEPT !.events = @ \cup {"debug-check-prerequisites-task"},
                                !.checked = TRUE, !.pc = "check"]
       \/ \E msg \in Messages :
            task' = [task EXCEPT !.resolved = "rejected", !.message = msg, !.pc = "settled"]
    /\ UNCHANGED <<baseVars, aad>>

\* checkAndInstallForTask resolves with ok or with an error, or rejects
\* (lines 86-98).
checkAndInstallForTask ==
    /\ task.pc = "check"
    /\ \/ task' = [task EXCEPT !.resolved = "ok", !.pc = "settled"]
       \/ \E msg \in Messages, how \in {"err", "rejected"} :
            task' = [task EXCEPT !.resolved = how, !.message = msg, !.pc = "settled"]
    /\ UNCHANGED <<baseVars, aad>>

\* A stop that hands every error to the base class.
stop_AlwaysBase ==
    /\ task.pc = "settled"
    /\ task' = [task EXCEPT !.baseStop = TRUE, !.pc = "closed"]
    /\ UNCHANGED <<baseVars, aad>>

\* The message of the error the base class gives to stop once do() has
\* settled: the error do() resolved or rejected with, none after ok.
StopError(t) == IF t.resolved = "ok" THEN NoMessage ELSE t.message

\* stop(error) (lines 101-110): fire exit code -1 for the error of line 72,
\* super.stop(error) otherwise.
stop ==
    /\ task.pc = "settled"
    /\ LET error == StopError(task)
       IN  task' = IF error # NoMessage /\ error = DebugSessionExists
                   THEN [task EXCEPT !.exit = Append(@, 0 - 1), !.pc = "closed"]
                   ELSE [task EXCEPT !.baseStop = TRUE, !.pc = "closed"]
    /\ UNCHANGED <<baseVars, aad>>

\* The task is run again in a new terminal.
TaskAgain ==
    /\ task.pc = "closed"
    /\ task' = NoTask
    /\ UNCHANGED <<baseVars, aad>>

\* The two drivers on a project where no call is intercepted.
InitDrivers ==
    /\ NoCalls
    /\ fs = Layout(TRUE, TRUE, FALSE, FALSE, FALSE)
    /\ spfx = FALSE /\ cmpKind = "same"
    /\ rewrite = NoRewrite
    /\ diffCall = NoDiff
    /\ aad = NoAad
    /\ task = NoTask

NextDrivers ==
    \/ Execute
    \/ BuildAadManifest
    \/ FirstUpdateAadApp
    \/ FullUpdateAadApp
    \/ ExecuteAgain
    \/ do
    \/ sendDebugAllStartEvent
    \/ checkAndInstallForTask
    \/ stop
    \/ TaskAgain

Spec == Init /\ [][Next]_vars

\* Every awaited operation settles: each file operation of consolidateLocalRemote
\* and of its rollback returns or throws, and so does the next() that upgrade
\* awaits.  Nothing is assumed about when, or whether, the user answers.
Fairness == \A c \in Calls : WF_vars(Transformer(c)) /\ WF_vars(UpgradeNext(c))
SpecLive == Init /\ [][Next]_vars /\ Fairness
SpecDiff == InitDiff /\ [][NextDiff]_vars
SpecTabs == InitTabs /\ [][NextTabs]_vars
SpecCalls == InitCalls /\ [][NextCalls]_vars
SpecFaulty == InitFaulty /\ [][NextFaulty]_vars
SpecDrivers == InitDrivers /\ [][NextDrivers]_vars

\* ===================================================================== claims

\* C1: needConsolidateLocalRemote returns true exactly when the unified-config
\* flag is enabled, the inputs carry a project path, .fx exists and
\* templates/appPackage/manifest.template.json does not; so it returns false
\* for every project without .fx and for every project that already has the
\* unified manifest template.
C1_Step(c) ==
    (~call[c].detected /\ call'[c].detected) =>
        /\ call'[c].need = (/\ configUnify
                            /\ call'[c].hasPath
                            /\ Exists(fs, FxFolder)
                            /\ ~Exists(fs, UnifiedManifest))
        /\ (~Exists(fs, FxFolder) => ~call'[c].need)
        /\ (Exists(fs, UnifiedManifest) => ~call'[c].need)

C1_DetectorContract == [][\A c \in Calls : C1_Step(c)]_vars

C1_Witness ==
    \E c \in Calls : /\ call[c].detected /\ call[c].need
                     /\ Exists(fs, localManifestFile) /\ ~Exists(fs, remoteManifestFile)

\* C2: when the prompt loop of a call ends with an answer other than
\* "Upgrade", that step sets ctx.result to ConsolidateCanceledError and
\* leaves the filesystem alone, the Transformer of the call has not started
\* and the migrator of the call has changed no file; a cancelled upgrade
\* never starts the Transformer later.
C2_Step(c) ==
    /\ (call[c].up = "prompt" /\ call'[c].up # "prompt" /\ call'[c].answer # upgradeButton)
         => /\ call'[c].up = "cancelled"
            /\ call'[c].result = ConsolidateCanceledError
            /\ fs' = fs
            /\ ~call'[c].touched
            /\ call'[c].returned = "none"
            /\ call'[c].fileList = <<>>
            /\ "ProjectConsolidateUpgradeStart" \notin call'[c].telemetry
    /\ (call[c].up = "cancelled" => call'[c].up \in {"cancelled", "off"})

C2_CancelTouchesNothing == [][\A c \in Calls : C2_Step(c)]_vars

C2_Witness ==
    \E c \in Calls : /\ call[c].up = "cancelled" /\ call[c].answer = "Not now"
                     /\ call[c].mw = "returned" /\ showModalFor(call[c].method)
                     /\ Exists(fs, localSettingsFile)

\* C3: after k "Learn More" answers followed by one other answer the prompt
\* was shown k+1 times and openUrl called k times; while every answer so far
\* is "Learn More" the upgrade is still prompting (it has neither cancelled
\* nor started the Transformer).
AllLearnMore(q) == \A i \in 1..Len(q) : q[i] = LearnMore

C3_Call(r) ==
    /\ (r.up = "prompt" =>
            /\ AllLearnMore(r.answers)
            /\ r.prompts = Len(r.answers) + 1
            /\ r.openUrls = Len(r.answers))
    /\ (r.up \notin {"off", "prompt"} =>
            /\ Len(r.answers) >= 1
            /\ AllLearnMore(SubSeq(r.answers, 1, Len(r.answers) - 1))
            /\ r.answers[Len(r.answers)] # LearnMore
            /\ r.prompts = Len(r.answers)
            /\ r.openUrls = Len(r.answers) - 1)
    /\ (AllLearnMore(r.answers) => r.up \in {"off", "prompt"})

C3_PromptLoopCounts == \A c \in Calls : C3_Call(call[c])

C3_Witness ==
    \E c \in Calls : /\ call[c].up = "cancelled"
                     /\ call[c].answers = <<LearnMore, LearnMore, Undefined>>
                     /\ call[c].openUrls = 2 /\ call[c].prompts = 3

\* consolidateLocalRemote of this call threw out of its forward pass and has
\* handed control back.
ForwardFailed(r) == r.up = "failed" /\ r.error # NoError

\* Every moved file is back with its content, the environment config written
\* by step 1 and the backup folder are gone.
Restored(r) ==
    /\ \A i \in 1..Len(r.removeMap) : fs[r.removeMap[i][2]] = r.fs0[r.removeMap[i][2]]
    /\ (Len(r.fileList) >= 1 => ~Exists(fs, EnvConfigPath))
    /\ ~Exists(fs, backupFolder)

C5_RollbackDeletesUnifiedManifest ==
    \A c \in Calls :
        (ForwardFailed(call[c]) /\ call[c].rb = "done") =>
            /\ ~Exists(fs, UnifiedManifest)
            /\ needConsolidateLocalRemote(fs, call[c].hasPath)

RollbackErrors == {"restore-ENOENT", "restore-error", "delete-error", "removeBackup-error"}

Guarded(r) == InAllowList(r.method) /\ ~r.overtaken

PassedUnprompted(r) ==
    /\ InAllowList(r.method) /\ r.detected /\ r.need
    /\ r.up = "off" /\ r.mw = "awaitNext"

ExpectedMoves(f) ==
    (IF Exists(f, localSettingsFile) THEN <<NameOf("ls")>> ELSE <<>>)
      \o (IF Exists(f, localManifestFile) THEN <<NameOf("lm")>> ELSE <<>>)
      \o (IF Exists(f, remoteManifestFile) THEN <<NameOf("rm")>> ELSE <<>>)

\* C10: after a successful run every legacy file that existed is gone from
\* its path and lies under .backup with its content, a legacy file that did
\* not exist got no backup copy, and the move-list names the moved files in
\* the order local settings, local manifest, remote manifest.
C10_Call(r) ==
    r.returned = "true" =>
        /\ \A p \in LegacyFiles :
              IF Exists(r.fs0, p)
              THEN ~Exists(fs, p) /\ fs[BackupOf(p)] = r.fs0[p]
              ELSE fs[BackupOf(p)] = r.fs0[BackupOf(p)]
        /\ r.moveFiles = ExpectedMoves(r.fs0)

C12_Original ==
    rewrite.kind = "static" =>
        rewrite.newUrl = Format("REMOTE_CONTENT_URL",
                                replaceSPFxComponentId(rewrite.url),
                                replaceSPFxComponentId(rewrite.url))

\* The identifier a static tab is rewritten with.
StaticTabId(entityId, contentUrl) ==
    IF Truthy(entityId) THEN entityId
    ELSE IF entityId = UndefinedText /\ ~Truthy(contentUrl) THEN UndefinedText
    ELSE replaceSPFxComponentId(contentUrl)

\* C12, amended: every static tab's new contentUrl is REMOTE_CONTENT_URL
\* formatted twice with the tab's entityId when that is a non-empty string;
\* otherwise with what the pattern componentId=<id>%26 matches in the tab's
\* previous contentUrl, the empty string without a match; and with undefined
\* when the tab has neither an entityId nor a non-empty contentUrl.  No other
\* tab of the manifest has a part in it.
C12_StaticTabContentUrl ==
    rewrite.kind = "static" =>
        rewrite.newUrl = Format("REMOTE_CONTENT_URL",
                                StaticTabId(rewrite.entityId, rewrite.url),
                                StaticTabId(rewrite.entityId, rewrite.url))

\* A second static tab without entityId, rewritten with the identifier of its
\* own contentUrl while the first tab left another one.
C12_Witness ==
    /\ rewrite.kind = "static" /\ rewrite.n = 2
    /\ rewrite.entityId = UndefinedText
    /\ rewrite.url = <<KeyPart, "a", EndPart>>
    /\ rewrite.before = <<"b">>
    /\ rewrite.newUrl = Format("REMOTE_CONTENT_URL", <<"a">>, <<"a">>)

\* C13: every configurable tab's new configurationUrl is
\* REMOTE_CONFIGURATION_URL formatted with what the pattern matches in the
\* tab's own previous configurationUrl, the empty string without a match,
\* whatever the static tabs and the other configurable tabs are.
C13_ConfigurableTabOwnUrl ==
    rewrite.kind = "configurable" =>
        rewrite.newUrl = Format("REMOTE_CONFIGURATION_URL",
                                replaceSPFxComponentId(rewrite.url),
                                replaceSPFxComponentId(rewrite.url))

\* consolidateLocalRemote of this call has taken its picture of the project.
Started(r) == r.up \notin {"off", "prompt", "cancelled"}

\* A run on a project that is not SPFx and has a remote manifest template and
\* no local one.
RemoteOnly(r) ==
    /\ Started(r) /\ ~spfx
    /\ Exists(r.fs0, remoteManifestFile) /\ ~Exists(r.fs0, localManifestFile)

\* C14: on a non-SPFx project with a remote and without a local manifest
\* template, the structural diff is never called and no warning shown, the
\* local manifest template gets no backup copy, RemoveMap entry or move-list
\* entry, and after a successful run the unified manifest template has the
\* content of the remote template.
C14_Call(r) ==
    RemoteOnly(r) =>
        /\ r.up # "cmp.read" /\ ~r.warned
        /\ "ProjectConsolidateCheckManifestError" \notin r.telemetry
        /\ ~Exists(fs, BackupOf(localManifestFile))
        /\ \A i \in 1..Len(r.removeMap) : r.removeMap[i][2] # localManifestFile
        /\ \A i \in 1..Len(r.moveFiles) : r.moveFiles[i] # NameOf("lm")
        /\ (r.returned = "true" => fs[UnifiedManifest] = r.fs0[remoteManifestFile])

C14_RemoteOnlyCopiedVerbatim == \A c \in Calls : C14_Call(call[c])

C14_Witness ==
    \E c \in Calls :
        /\ RemoteOnly(call[c]) /\ call[c].returned = "true"
        /\ fs[UnifiedManifest] = Original(remoteManifestFile)
        /\ call[c].moveFiles = <<NameOf("ls"), NameOf("rm")>>

\* The contract stated for diff: the same key set at every level and, for
\* every key outside the ignore set, two nested objects that are equivalent
\* or two scalars that are strictly equal.
RECURSIVE Equivalent(_, _)
Equivalent(a, b) ==
    /\ ObjectKeys(a) = ObjectKeys(b)
    /\ \A key \in ObjectKeys(a) \ ignoreKeys :
          IF isObject(Member(a, key)) /\ isObject(Member(b, key))
          THEN Equivalent(Member(a, key), Member(b, key))
          ELSE /\ ~isObject(Member(a, key)) /\ ~isObject(Member(b, key))
               /\ Member(a, key) = Member(b, key)

\* C15: for two JSON objects diff returns true exactly when they have the
\* same key set at every level and, for every key outside the ignore set, the
\* values are nested objects for which diff is true or strictly equal scalars.
C15_DiffIsEquivalence ==
    (/\ diffCall.phase = "compared"
     /\ diffCall.a.t = "object" /\ diffCall.b.t = "object")
        => (diffCall.outcome = "true" <=> Equivalent(diffCall.a, diffCall.b))

\* The two trees are identical except for what is stored under ignored keys.
RECURSIVE SameButIgnored(_, _)
SameButIgnored(a, b) ==
    /\ a.t = b.t /\ a.v = b.v
    /\ DOMAIN a.m = DOMAIN b.m
    /\ \A key \in DOMAIN a.m :
          key \in ignoreKeys \/ SameButIgnored(a.m[key], b.m[key])

\* C16 as claimed: diff returns true for any two JSON trees that are identical
\* except for the values under ignored keys.
C16_Original ==
    (diffCall.phase = "compared" /\ SameButIgnored(diffCall.a, diffCall.b))
        => diffCall.outcome = "true"

\* C16, amended: diff returns true for any two JSON trees that are identical
\* except for the values under ignored keys, unless they are null: for null
\* Object.keys throws and diff returns nothing.
C16_IgnoredKeysDoNotCount ==
    (diffCall.phase = "compared" /\ SameButIgnored(diffCall.a, diffCall.b))
        => diffCall.outcome = (IF diffCall.a = Null THEN "throws" ELSE "true")

\* Two manifests that differ in description only, at the top and in a nested
\* object.
C16_Witness ==
    /\ diffCall.phase = "compared" /\ diffCall.outcome = "true"
    /\ diffCall.a = Obj([description |-> Scalar("string", "x"),
                         id |-> Obj([description |-> Null])])
    /\ diffCall.b = Obj([description |-> Scalar("number", "1"),
                         id |-> Obj([description |-> Scalar("string", "x")])])

\* C17 as claimed: diff(x, x) returns true for every JSON tree x.
C17_Original ==
    (diffCall.phase = "compared" /\ diffCall.a = diffCall.b) => diffCall.outcome = "true"

\* C17, amended: diff(x, x) returns true for every JSON tree x that is not
\* null itself (objects, arrays and scalars, with nulls nested to any depth);
\* diff(null, null) throws.
C17_Reflexive ==
    (diffCall.phase = "compared" /\ diffCall.a = diffCall.b)
        => diffCall.outcome = (IF diffCall.a = Null THEN "throws" ELSE "true")

\* An object holding a null and an array that holds a string.
C17_Witness ==
    /\ diffCall.phase = "compared" /\ diffCall.outcome = "true"
    /\ diffCall.a = diffCall.b
    /\ diffCall.a = Obj([description |-> Null,
                         id |-> Arr([k \in {"0"} |-> Scalar("string", "x")])])

\* What a forward pass without a throw leaves of the project f, the report
\* file aside; cmpKind has no part in it.
MigratedFrom(f) ==
    /\ fs[EnvConfigPath] = "env-config:local"
    /\ fs[getManifestTemplatePath] =
          (IF ~Exists(f, remoteManifestFile) THEN f[getManifestTemplatePath]
           ELSE IF spfx THEN SPFxRewrite(f[remoteManifestFile])
           ELSE f[remoteManifestFile])
    /\ \A p \in LegacyFiles :
          /\ ~Exists(fs, p)
          /\ fs[BackupOf(p)] = (IF Exists(f, p) THEN f[p] ELSE f[BackupOf(p)])
    /\ fs[backupFolder] = (IF \E p \in LegacyFiles : Exists(f, p) THEN Dir ELSE f[backupFolder])
    /\ fs[FxFolder] = f[FxFolder] /\ fs[TemplateManifest] = f[TemplateManifest]

\* RemoveMap after the three moves on the project f.
MovedFrom(f) ==
    (IF Exists(f, localSettingsFile)
        THEN <<<<BackupOf(localSettingsFile), localSettingsFile>>>> ELSE <<>>)
      \o (IF Exists(f, localManifestFile)
             THEN <<<<BackupOf(localManifestFile), localManifestFile>>>> ELSE <<>>)
      \o (IF Exists(f, remoteManifestFile)
             THEN <<<<BackupOf(remoteManifestFile), remoteManifestFile>>>> ELSE <<>>)

\* C18: whatever the comparison of the two manifests finds (equivalent,
\* different, unreadable or unparsable), it changes no file, RemoveMap entry
\* or return value and hands over to step 5 at once, without waiting for the
\* warning; and every forward pass that does not throw returns true with the
\* filesystem and RemoveMap that follow from the project alone.
C18_Step(c) ==
    /\ (call[c].up = "cmp.read" /\ call'[c].up # "cmp.read") =>
          /\ call'[c].up = "lm.exists"
          /\ fs' = fs
          /\ call'[c].removeMap = call[c].removeMap
          /\ call'[c].moveFiles = call[c].moveFiles
          /\ call'[c].returned = call[c].returned
          /\ call'[c].error = NoError
    /\ (call[c].returned = "true" =>
          MigratedFrom(call[c].fs0) /\ call[c].removeMap = MovedFrom(call[c].fs0))'

C18_CompareNeverChangesCourse == [][\A c \in Calls : C18_Step(c)]_vars

\* A run that could not compare its manifests and moved all three files.
C18_Witness ==
    \E c \in Calls :
        /\ call[c].returned = "true"
        /\ "ProjectConsolidateCheckManifestError" \in call[c].telemetry
        /\ cmpKind = "unparsable"
        /\ Len(call[c].removeMap) = 3

\* C19 as stated: once an answer other than "Learn More" is given, upgrade
\* finishes cancelled, or with the Transformer run to success, or with a
\* failure thrown again.
Answered(r) == r.answers # <<>> /\ r.answers[Len(r.answers)] # LearnMore
CancelledOutcome(r) == r.up = "cancelled" /\ r.result = ConsolidateCanceledError
SuccessOutcome(r) == r.up = "done" /\ r.returned = "true"
RethrownOutcome(r) == r.up = "failed" /\ r.thrown # NoError
LoadErrorOutcome(r) == r.up = "done" /\ r.returned = "false"
Finished(r) == r.up \in {"cancelled", "done", "failed"}
Finishes(c) == ~Finished(call[c]) /\ Finished(call'[c])
C19_Original ==
    /\ [](\A c \in Calls : call[c].up \notin {"off", "prompt"} => Answered(call[c]))
    /\ [][\A c \in Calls :
            Finishes(c) => (\/ CancelledOutcome(call[c])
                            \/ SuccessOutcome(call[c])
                            \/ RethrownOutcome(call[c]))']_vars
    /\ \A c \in Calls : Answered(call[c]) ~> Finished(call[c])

\* C19: upgrade is past its prompt only after an answer other than "Learn
\* More"; once such an answer is given, if every file operation and the
\* awaited next() settle, upgrade finishes; and it finishes cancelled, or
\* after the Transformer succeeded, or with a failure thrown again, or after
\* consolidateLocalRemote returned false because the settings did not load.
C19_FinishesAfterAnswer ==
    /\ [](\A c \in Calls : call[c].up \notin {"off", "prompt"} => Answered(call[c]))
    /\ [][\A c \in Calls :
            Finishes(c) => (\/ CancelledOutcome(call[c])
                            \/ SuccessOutcome(call[c])
                            \/ RethrownOutcome(call[c])
                            \/ LoadErrorOutcome(call[c]))']_vars
    /\ \A c \in Calls : Answered(call[c]) ~> Finished(call[c])

C19_Witness ==
    \E c \in Calls :
        /\ LoadErrorOutcome(call[c])
        /\ call[c].answers = <<LearnMore, upgradeButton>>
        /\ call[c].nextCalls = 1

\* C20 as stated: at every point of a run, every RemoveMap entry has its
\* backup file, holding what the original file held before the run.
EntryBackedUp(r, item) ==
    /\ Exists(fs, item[1])
    /\ fs[item[1]] = r.fs0[item[2]]
C20_Original ==
    \A c \in Calls :
        Running(call[c]) =>
            \A i \in 1..Len(call[c].removeMap) : EntryBackedUp(call[c], call[c].removeMap[i])

\* C20: at every point of a run that no other run on the project overlaps,
\* every RemoveMap entry has its backup file, holding what the original file
\* held before the run.
C20_EntriesBackedUp ==
    \A c \in Calls :
        (Running(call[c]) /\ ~call[c].overlapped) =>
            \A i \in 1..Len(call[c].removeMap) : EntryBackedUp(call[c], call[c].removeMap[i])

C20_Witness ==
    \E c \in Calls :
        /\ Running(call[c]) /\ ~call[c].overlapped
        /\ call[c].up = "rm.copy" /\ Len(call[c].removeMap) = 1
        /\ \E d \in Calls \ {c} : call[d].up = "prompt"

\* The file operations of the run of a call that are issued and not completed:
\* the awaited step of the forward pass or of the rollback, the ignore-file
\* update of postConsolidate, the copy of generateUpgradeReport.
InFlight(r) ==
    (IF Running(r) THEN {"step"} ELSE {})
        \cup (IF r.post = "ignore" THEN {"ignore-file update"} ELSE {})
        \cup (IF r.report = "copy" THEN {"report copy"} ELSE {})

\* C21: at no time are two file operations of one consolidation run in
\* flight together.
C21_OneOperationInFlight ==
    \A c \in Calls : Cardinality(InFlight(call[c])) <= 1

IsPrefix(s, t) == Len(s) <= Len(t) /\ SubSeq(t, 1, Len(s)) = s
Reverse(s) == [i \in 1..Len(s) |-> s[Len(s) + 1 - i]]

\* From the start of a run to the end of upgrade, fileList only grows at its end.
FileListGrows ==
    [][\A c \in Calls :
         (Started(call[c]) /\ call'[c].up # "off") =>
             IsPrefix(call[c].fileList, call'[c].fileList)]_vars

\* C22 as stated: fileList only grows, and the rollback deletes its entries
\* in the reverse of the order in which they were appended.
C22_Original ==
    /\ FileListGrows
    /\ [](\A c \in Calls : IsPrefix(call[c].removed, Reverse(call[c].fileList)))

\* C22: fileList only grows, and the rollback deletes its entries in the
\* order in which they were appended, all of them when no delete fails.
C22_DeletedInAppendOrder ==
    /\ FileListGrows
    /\ [](\A c \in Calls :
            /\ IsPrefix(call[c].removed, call[c].fileList)
            /\ call[c].rb = "done" => call[c].removed = call[c].fileList)

C22_Witness ==
    \E c \in Calls :
        /\ call[c].up = "rbDelete" /\ call[c].rbIdx = 2
        /\ call[c].fileList = <<EnvLocalFile, RecordedManifestPath>>
        /\ call[c].removed = <<EnvLocalFile>>

\* C25: in every invocation of ProjectConsolidateMW next() is invoked at most
\* once.
C25_NextAtMostOnce == \A c \in Calls : call[c].nextCalls <= 1

\* The call went through `await upgrade(ctx, next, true)` of line 71.
ModalPath(r) == r.prompts > 0 /\ showModalFor(r.method)

\* C26: on the modal path next() is invoked only after the answer "Upgrade"
\* and a completed consolidation; after a settings load error next() is not
\* invoked and ctx.result keeps the load error.
C26_ModalNextAfterConsolidation ==
    \A c \in Calls :
        ModalPath(call[c]) =>
            /\ call[c].nextCalls > 0 =>
                  /\ call[c].answers # <<>>
                  /\ call[c].answers[Len(call[c].answers)] = upgradeButton
                  /\ call[c].returned = "true"
            /\ call[c].returned = "false" =>
                  /\ call[c].nextCalls = 0
                  /\ call[c].result = LoadSettingsError

\* C27: after a run that completed successfully needConsolidateLocalRemote
\* returns false for the project, whatever its legacy layout was.
C27_SuccessEndsDetection ==
    \A c \in Calls :
        call[c].returned = "true" => ~needConsolidateLocalRemote(fs, call[c].hasPath)

\* The content a legacy file had before the run is at its path or in .backup.
Kept(r, p) == fs[p] = r.fs0[p] \/ fs[BackupOf(p)] = r.fs0[p]

\* C28 as stated: at every point of a run every legacy file that existed
\* before the run has its content at its original path or under .backup.
C28_Original ==
    \A c \in Calls :
        Running(call[c]) =>
            \A p \in LegacyFiles : Exists(call[c].fs0, p) => Kept(call[c], p)

\* C28: at every point of a run that no other run on the project overlaps,
\* forward pass and rollback alike, every legacy file that existed before the
\* run has its content at its original path or under .backup.
C28_LegacyContentKept ==
    \A c \in Calls :
        (Running(call[c]) /\ ~call[c].overlapped) =>
            \A p \in LegacyFiles : Exists(call[c].fs0, p) => Kept(call[c], p)

\* The remove of the remote manifest failed after the local manifest was
\* moved: the rollback has put the local manifest back.
C28_Witness ==
    \E c \in Calls :
        /\ call[c].up = "rbDelete" /\ ~call[c].overlapped
        /\ call[c].error = "remove-error"
        /\ Len(call[c].removeMap) = 1
        /\ fs[localManifestFile] = call[c].fs0[localManifestFile]
        /\ Exists(fs, remoteManifestFile)

\* C29: diff is symmetric: diff(a, b) equals diff(b, a) for all JSON trees.
C29_DiffSymmetric ==
    diffCall.phase = "compared" =>
        diffCall.outcome = diffOutcome(diffCall.b, diffCall.a)

\* C23: for a manifest with a non-empty preAuthorizedApplications list execute
\* sends the manifest with the list empty, then, only after that request
\* succeeded, the manifest with the full list, and nothing else; for a manifest
\* with a missing or empty list it sends the manifest once.
C23_TwoRequestsInOrder ==
    aad.requests # <<>> =>
        IF aad.manifest.present /\ aad.manifest.list # <<>>
        THEN /\ aad.requests[1] = ListOf(<<>>)
             /\ Len(aad.requests) <= 2
             /\ Len(aad.requests) = 2 => aad.requests[2] = aad.manifest
             /\ aad.pc = "first" => Len(aad.requests) = 1
             /\ (aad.pc = "full" \/ aad.returned = "ok") => Len(aad.requests) = 2
        ELSE aad.requests = <<aad.manifest>>

C23_Witness ==
    /\ aad.returned = "ok"
    /\ aad.requests = <<ListOf(<<>>), ListOf(<<"a", "b">>)>>

\* C30: execute never throws; a failure is returned as an err result with
\* empty summaries: a UserError or SystemError unchanged, an Axios error with
\* status 400..499 as UnhandledUserError, anything else as UnhandledError; and
\* with an invalid manifestPath or outputFilePath no request is sent.
C30_NeverThrows ==
    /\ aad.threw = NoThrown
    /\ aad.caught # NoThrown =>
          /\ aad.returned = "err" /\ aad.summaries = <<>>
          /\ aad.error =
                IF aad.caught.class \in {"UserError", "SystemError"} THEN aad.caught
                ELSE IF /\ aad.caught.class = "AxiosError" /\ aad.caught.hasResponse
                        /\ aad.caught.status \in 400..499
                     THEN UnhandledUserError
                     ELSE UnhandledError
    /\ (aad.pc # "idle" /\ validateArgs(aad.manifestPath, aad.outputFilePath) # <<>>) =>
          aad.requests = <<>>

=============================================================================
